---- MODULE Spec2Model ----
(***************************************************************************)
(* Model of src/telegram_bot.py: the Telegram relay of passivbot.          *)
(*                                                                         *)
(* Two threads of control act on one Telegram object:                      *)
(*   - the dispatcher thread started by Updater.start_polling() (line 34)  *)
(*     runs the registered command handlers, one at a time;                *)
(*   - the asyncio event loop `loop` (line 15) runs the init_indicators    *)
(*     task created at line 122 and its done-callback init_finished.       *)
(* The handler _reload_config and the callback init_finished both access   *)
(* config_reload_ts, so both are modelled statement by statement; the      *)
(* labels lNNN are the source lines about to be executed.                  *)
(***************************************************************************)
EXTENDS Integers, Sequences, FiniteSets, TLC

\* ---------------------------------------------------------------- bounds
MaxOrders == 2          \* open orders in one order list
MaxReloads == 2         \* /reload_config commands dispatched in one run
MaxTicks == 2           \* clock advances in one run
TickStep == 150         \* seconds the clock advances by in one step

\* ------------------------------------------------------ program constants
ReloadWindow == 300     \* 60 * 5 seconds, line 101

StartTime == 2 * ReloadWindow      \* time() when the relay is constructed
MaxTime == StartTime + MaxTicks * TickStep

chat_id == "operator"              \* self._chat_id, line 16
Chats == {"operator", "stranger"}  \* chats a command can come from

\* dispatcher.add_handler(CommandHandler(command, callback)), lines 27-33
Registrations == <<
    <<"balance", "_balance">>,
    <<"orders", "_orders">>,
    <<"position", "_position">>,
    <<"graceful_stop", "_graceful_stop">>,
    <<"show_config", "show_config">>,
    <<"reload_config", "_reload_config">>,
    <<"help", "_help">> >>
Registered == {Registrations[i][1] : i \in DOMAIN Registrations}
\* commands a chat can send: the registered ones and one that is not
Inbound == Registered \cup {"start"}

Matching(cmd) == {i \in DOMAIN Registrations : Registrations[i][1] = cmd}

\* mutant of Route: a command no handler is registered for gets the help
RouteFallback(cmd) ==
    IF Matching(cmd) = {} THEN "_help"
    ELSE Registrations[CHOOSE i \in Matching(cmd) :
                           \A j \in Matching(cmd) : i <= j][2]

\* The dispatcher calls the callback of the first handler registered for
\* the command, and none when no handler is.
Route(cmd) ==
    IF Matching(cmd) = {} THEN "none"
    ELSE Registrations[CHOOSE i \in Matching(cmd) :
                           \A j \in Matching(cmd) : i <= j][2]
\* the routing of every inbound command
Routing == [cmd \in Inbound |-> Route(cmd)]

\* keys of the Bot Facade's position mapping the handlers look up
PositionKeys == {"long", "shrt", "equity", "used_margin", "available_margin"}
Snapshots == SUBSET PositionKeys
\* the snapshots Spec draws from: empty, without the balance keys, complete
SomeSnapshots == {{}, {"long", "shrt"}, PositionKeys}

\* entries of self._bot.open_orders: side, position_side, price, qty
\* (the orders drawn are the entries and the closes of the example of the
\* spec: buy/long and sell/shrt, at two prices and two quantities)
OrderPool == {o \in [price : {90, 100}, qty : {1, 2}, side : {"buy", "sell"},
                     position_side : {"long", "shrt"}] :
                 o.side = "buy" <=> o.position_side = "long"}
RECURSIVE SeqsUpTo(_, _)
SeqsUpTo(S, n) ==
    IF n = 0 THEN {<<>>}
    ELSE LET shorter == SeqsUpTo(S, n - 1)
         IN shorter \cup {Append(q, x) : q \in shorter, x \in S}
OrderLists == SeqsUpTo(OrderPool, MaxOrders)
\* the order lists Spec draws from: none, and the two orders of the spec's
\* example, the higher price first
SomeOrderLists == {
    <<>>,
    <<[price |-> 100, qty |-> 1, side |-> "buy", position_side |-> "long"],
      [price |-> 90, qty |-> 2, side |-> "sell", position_side |-> "shrt"]>>}

\* message texts
MsgOrders == "order table"
MsgHelp == "The following commands are available"
MsgPosition == "position table"
MsgPosNotInit == "Position not initialized yet, please try again later"
MsgBalance == "Balance"
MsgBalNotRetrieved == "Balance not retrieved yet, please try again later"
MsgGraceful == "No longer opening new long or short positions"
MsgInProgress == "Config reload in progress, please wait"
MsgReloading == "Reloading config..."
MsgFailedLoad == "Failed to load config file"
MsgConfig == "Version, Config"
MsgStarted == "Passivbot started!"

VARIABLES
    now,                \* time(): the wall clock, in seconds
    config_reload_ts,   \* self.config_reload_ts
    hpc,                \* dispatcher thread: "idle", or the line of
                        \* _reload_config about to be executed
    hcmd,               \* command the dispatcher received last
    hfn,                \* handler it called for it ("none": no handler)
    hchat,              \* chat that command came from
    hres,               \* "none", "running", "returned", "raised",
                        \* "ignored" (no handler was called)
    msgs,               \* messages sent by that handler, in order
    calls,              \* Bot Facade mutators that handler called, in order
    position,           \* self._bot.position as that handler read it ({}
                        \* when it did not read it)
    open_orders,        \* self._bot.open_orders as that handler read it
                        \* (<<>> when it did not read it)
    table,              \* rows of the table that handler rendered, in order
    nReload,            \* /reload_config commands dispatched so far; the
                        \* running _reload_config is attempt number nReload
    tasks,              \* attempts whose init_indicators task is pending
    cpc,                \* event loop: "idle", or the line of init_finished
                        \* about to be executed
    ctask,              \* attempt whose init_finished is running (0: none)
    cbmsgs,             \* messages sent by the init_finished run last
    paused,             \* Bot Facade: pause() called, resume() not yet
    config,             \* Bot Facade: self._bot.config
    exitlog,            \* what exit printed and raised, in order
    \* history variables: they record what happened and steer nothing
    dropped,            \* the transport raised in a send_msg call of the
                        \* step just taken
    outcome,            \* how the task ended whose done-callback the step
                        \* just taken entered, "none" for any other step
    ev,                 \* ev[n]: what reload attempt n did so far, in order
    started,            \* started[n]: time() attempt n stored at line 104
    resetSince          \* config_reload_ts was reset to 0.0 after the
                        \* last time line 104 set it

vars == <<now, config_reload_ts, hpc, hcmd, hfn, hchat, hres, msgs, calls,
          position, open_orders, table,
          nReload, tasks, cpc, ctask, cbmsgs, paused, config, ev, started,
          resetSince, exitlog, dropped, outcome>>

\* what the Bot Facade mutators change
facade == <<paused, config, tasks>>
handler == <<hpc, hcmd, hfn, hchat, hres, msgs, calls, position,
            open_orders, table, nReload>>
callback == <<cpc, ctask, cbmsgs>>
history == <<ev, started, resetSince>>

Attempts == 1..MaxReloads
Did(n, e) == ev' = [ev EXCEPT ![n] = Append(@, e)]

\* send_msg, lines 142-152: every message goes to self._chat_id
send_msg(log, text) == Append(log, [to |-> chat_id, text |-> text])

\* self._updater.bot.send_message returns or raises, lines 144-150
SendOutcomes == {"sent", "failed"}
\* mutant of Propagates: send_msg without its try/except
PropagatesFailure(o) == o = "failed"
\* lines 143, 151-152: the bare except catches whatever the transport
\* raises, so send_msg passes no outcome on to its caller
Propagates(o) == FALSE

\* a step that calls send_msg with transport outcome o, and one that does
\* not call it
Sending(o) ==
    dropped' = (o = "failed") /\ outcome' = "none" /\ UNCHANGED exitlog
NotSending ==
    dropped' = FALSE /\ outcome' = "none" /\ UNCHANGED exitlog

\* send_msg raised in the handler that is running: the dispatcher gets the
\* exception
HandlerRaised ==
    /\ hpc' = "idle"
    /\ hres' = "raised"
    /\ UNCHANGED <<now, config_reload_ts, hcmd, hfn, hchat, msgs, calls,
                   position, open_orders, table, nReload, callback, facade,
                   history>>
\* send_msg raised in init_finished: the event loop gets the exception
CallbackRaised ==
    /\ cpc' = "idle"
    /\ UNCHANGED <<now, config_reload_ts, handler, ctask, cbmsgs, facade,
                   history>>

\* self._bot.set_config_value(key, value), lines 94-95
set_config_value(cfg, key, value) == [cfg EXCEPT ![key] = value]

\* the config the bot starts with, and the one json.load returns for
\* reload attempt n (line 108)
StartConfig == [version |-> 0, do_long |-> TRUE, do_shrt |-> TRUE]
LoadedConfig(n) == [version |-> n, do_long |-> TRUE, do_shrt |-> TRUE]

Init ==
    /\ now = StartTime
    /\ config_reload_ts = 0
    /\ hpc = "idle"
    /\ hcmd = "none"
    /\ hfn = "none"
    /\ hchat = chat_id
    /\ hres = "none"
    /\ msgs = <<>>
    /\ calls = <<>>
    /\ position = {}
    /\ open_orders = <<>>
    /\ table = <<>>
    /\ nReload = 0
    /\ tasks = {}
    /\ cpc = "idle"
    /\ ctask = 0
    /\ cbmsgs = <<>>
    /\ paused = FALSE
    /\ config = StartConfig
    /\ ev = [n \in Attempts |-> <<>>]
    /\ started = [n \in Attempts |-> 0]
    /\ resetSince = FALSE
    /\ exitlog = <<>>
    /\ dropped = FALSE
    /\ outcome = "none"

\* the wall clock advances
Tick ==
    /\ now + TickStep <= MaxTime
    /\ now' = now + TickStep
    /\ UNCHANGED <<config_reload_ts, handler, callback, facade>>
    /\ UNCHANGED history
    /\ NotSending

\* ------------------------------------------------- the other handlers
\* Each runs to completion on the dispatcher thread; it touches neither
\* config_reload_ts nor anything init_finished writes but the Bot Facade.
Handled(chat, cmd, pos, log, res, called) ==
    /\ hpc = "idle"
    /\ hfn' = Routing[cmd]
    /\ open_orders' = <<>>
    /\ table' = <<>>
    /\ calls' = called
    /\ hcmd' = cmd
    /\ hchat' = chat
    /\ position' = pos
    /\ msgs' = log
    /\ \E o \in (IF log = <<>> THEN {"sent"} ELSE SendOutcomes) :
         /\ Sending(o)
         /\ hres' = IF log # <<>> /\ Propagates(o) THEN "raised" ELSE res
    /\ UNCHANGED <<now, config_reload_ts, hpc, nReload, callback>>
    /\ UNCHANGED history

\* _help, lines 36-45
Help(chat, cmd) ==
    /\ Routing[cmd] = "_help"
    /\ Handled(chat, cmd, {}, send_msg(<<>>, MsgHelp), "returned",
               <<>>)
    /\ UNCHANGED facade

\* _position, lines 63-81: position['shrt'] raises KeyError when the
\* mapping has 'long' but no 'shrt'
PositionRaises(pos) == "long" \in pos /\ "shrt" \notin pos
PositionReply(pos) == IF "long" \in pos THEN MsgPosition ELSE MsgPosNotInit

Position(chat, cmd, pos) ==
    /\ Routing[cmd] = "_position"
    /\ IF PositionRaises(pos)
       THEN Handled(chat, cmd, pos, <<>>, "raised", <<>>)
       ELSE Handled(chat, cmd, pos,
                    send_msg(<<>>, PositionReply(pos)), "returned", <<>>)
    /\ UNCHANGED facade

\* _balance, lines 83-91: bool(position) is true of a non-empty mapping,
\* and then the three lookups raise KeyError on a missing key
BalanceKeys == {"equity", "used_margin", "available_margin"}
BalanceRaises(pos) == pos # {} /\ ~(BalanceKeys \subseteq pos)
BalanceReply(pos) == IF pos # {} THEN MsgBalance ELSE MsgBalNotRetrieved

Balance(chat, cmd, pos) ==
    /\ Routing[cmd] = "_balance"
    /\ IF BalanceRaises(pos)
       THEN Handled(chat, cmd, pos, <<>>, "raised", <<>>)
       ELSE Handled(chat, cmd, pos,
                    send_msg(<<>>, BalanceReply(pos)), "returned", <<>>)
    /\ UNCHANGED facade

\* mutant of GracefulStop: line 95 is missing
GracefulStopOnlyLong(chat, cmd) ==
    /\ Routing[cmd] = "_graceful_stop"
    /\ Handled(chat, cmd, {},
               send_msg(<<>>, MsgGraceful), "returned",
               <<"set_config_value(do_long, False)">>)
    /\ config' = set_config_value(config, "do_long", FALSE)
    /\ UNCHANGED <<paused, tasks>>

\* _orders, lines 47-61.  A row is [position_side, side, price, qty], line
\* 56.  get_string(sortby="price"), line 58, sorts the rows in ascending
\* order of the list [price, position_side, side, price, qty]: the sort
\* field put in front of the row.
TableRow(order) == [ps |-> order.position_side, side |-> order.side,
                    price |-> order.price, qty |-> order.qty]
\* the order of Python's str for the strings of a row
StrRank(str) == CASE str = "buy" -> 1 [] str = "long" -> 2
                  [] str = "sell" -> 3 [] str = "shrt" -> 4
\* mutant of RowLess: reversesort=True
RowGreater(a, b) ==
    \/ a.price > b.price
    \/ a.price = b.price /\ StrRank(a.ps) > StrRank(b.ps)
    \/ a.price = b.price /\ a.ps = b.ps /\ StrRank(a.side) > StrRank(b.side)
    \/ a.price = b.price /\ a.ps = b.ps /\ a.side = b.side /\ a.qty > b.qty
RowLess(a, b) ==
    \/ a.price < b.price
    \/ a.price = b.price /\ StrRank(a.ps) < StrRank(b.ps)
    \/ a.price = b.price /\ a.ps = b.ps /\ StrRank(a.side) < StrRank(b.side)
    \/ a.price = b.price /\ a.ps = b.ps /\ a.side = b.side /\ a.qty < b.qty
\* list.sort is stable: a row goes behind the rows that are not greater
RECURSIVE InsertRow(_, _)
InsertRow(r, rows) ==
    IF rows = <<>> THEN <<r>>
    ELSE IF RowLess(r, Head(rows)) THEN <<r>> \o rows
    ELSE <<Head(rows)>> \o InsertRow(r, Tail(rows))
RECURSIVE SortRows(_)
SortRows(rows) ==
    IF rows = <<>> THEN <<>>
    ELSE InsertRow(rows[Len(rows)], SortRows(SubSeq(rows, 1, Len(rows) - 1)))
\* lines 49-59
OrderTable(oo) == SortRows([i \in DOMAIN oo |-> TableRow(oo[i])])

Orders(chat, cmd, oo) ==
    /\ Routing[cmd] = "_orders"
    /\ hpc = "idle"
    /\ hcmd' = cmd
    /\ hfn' = Routing[cmd]
    /\ hchat' = chat
    /\ position' = {}
    /\ open_orders' = oo
    /\ table' = OrderTable(oo)
    /\ msgs' = send_msg(<<>>, MsgOrders)
    /\ calls' = <<>>
    /\ \E o \in SendOutcomes :
         /\ Sending(o)
         /\ hres' = IF Propagates(o) THEN "raised" ELSE "returned"
    /\ UNCHANGED <<now, config_reload_ts, hpc, nReload, callback, facade,
                   history>>

\* _graceful_stop, lines 93-97
GracefulStop(chat, cmd) ==
    /\ Routing[cmd] = "_graceful_stop"
    /\ Handled(chat, cmd, {},
               send_msg(<<>>, MsgGraceful), "returned",
               <<"set_config_value(do_long, False)",
                 "set_config_value(do_shrt, False)">>)
    /\ config' = set_config_value(set_config_value(config, "do_long", FALSE),
                                  "do_shrt", FALSE)
    /\ UNCHANGED <<paused, tasks>>

\* show_config, lines 125-136
ShowConfig(chat, cmd) ==
    /\ Routing[cmd] = "show_config"
    /\ Handled(chat, cmd, {},
               send_msg(<<>>, MsgConfig), "returned", <<>>)
    /\ UNCHANGED facade

\* a command no handler is registered for: the dispatcher calls nothing
Ignored(chat, cmd) ==
    /\ Routing[cmd] = "none"
    /\ Handled(chat, cmd, {}, <<>>, "ignored", <<>>)
    /\ UNCHANGED facade

\* ------------------------------------------------------- _reload_config
\* line 100: the first half of the guard
GuardSet(ts) == ts > 0
\* mutants of GuardFresh: the comparison turned round; the window's end
\* taken into the window
GuardFreshFlipped(t, ts) == t - ts > ReloadWindow
GuardFreshInclusive(t, ts) == t - ts <= ReloadWindow
\* line 101: the second half of the guard
GuardFresh(t, ts) == t - ts < ReloadWindow

\* The dispatcher calls _reload_config, which executes line 100.
ReloadConfig(chat, cmd) ==
    /\ Routing[cmd] = "_reload_config"
    /\ hpc = "idle"
    /\ nReload < MaxReloads
    /\ nReload' = nReload + 1
    /\ hcmd' = cmd
    /\ hfn' = Routing[cmd]
    /\ open_orders' = <<>>
    /\ table' = <<>>
    /\ hchat' = chat
    /\ hres' = "running"
    /\ msgs' = <<>>
    /\ position' = {}
    /\ hpc' = IF GuardSet(config_reload_ts) THEN "l101" ELSE "l104"
    /\ UNCHANGED <<now, config_reload_ts, callback, facade>>
    /\ UNCHANGED history
    /\ calls' = <<>>
    /\ NotSending

L101 ==
    /\ hpc = "l101"
    /\ hpc' = IF GuardFresh(now, config_reload_ts) THEN "l102" ELSE "l104"
    /\ UNCHANGED <<now, config_reload_ts, hcmd, hchat, hres, msgs, position,
                   nReload, callback, facade>>
    /\ UNCHANGED history
    /\ UNCHANGED calls
    /\ UNCHANGED <<hfn, open_orders, table>>
    /\ NotSending

\* mutant of L102: the rejecting branch clears the timestamp
L102Resets ==
    /\ hpc = "l102"
    /\ \E o \in SendOutcomes :
         /\ Sending(o)
         /\ IF Propagates(o) THEN HandlerRaised ELSE
              /\ msgs' = send_msg(msgs, MsgInProgress)
              /\ config_reload_ts' = 0
              /\ hpc' = "idle"
              /\ hres' = "returned"
              /\ Did(nReload, "in_progress")
              /\ UNCHANGED <<now, hcmd, hchat, position, nReload, callback, facade,
                 started, resetSince>>
              /\ UNCHANGED calls
              /\ UNCHANGED <<hfn, open_orders, table>>

\* lines 102-103
L102 ==
    /\ hpc = "l102"
    /\ \E o \in SendOutcomes :
         /\ Sending(o)
         /\ IF Propagates(o) THEN HandlerRaised ELSE
              /\ msgs' = send_msg(msgs, MsgInProgress)
              /\ hpc' = "idle"
              /\ hres' = "returned"
              /\ UNCHANGED <<now, config_reload_ts, hcmd, hchat, position, nReload,
                 callback, facade>>
              /\ Did(nReload, "in_progress")
              /\ UNCHANGED <<started, resetSince>>
              /\ UNCHANGED calls
              /\ UNCHANGED <<hfn, open_orders, table>>

L104 ==
    /\ hpc = "l104"
    /\ config_reload_ts' = now
    /\ hpc' = "l105"
    /\ UNCHANGED <<now, hcmd, hchat, hres, msgs, position, nReload,
                   callback, facade>>
    /\ Did(nReload, "ts_set")
    /\ started' = [started EXCEPT ![nReload] = now]
    /\ resetSince' = FALSE
    /\ UNCHANGED calls
    /\ UNCHANGED <<hfn, open_orders, table>>
    /\ NotSending

L105 ==
    /\ hpc = "l105"
    /\ \E o \in SendOutcomes :
         /\ Sending(o)
         /\ IF Propagates(o) THEN HandlerRaised ELSE
              /\ msgs' = send_msg(msgs, MsgReloading)
              /\ hpc' = "l108"
              /\ UNCHANGED <<now, config_reload_ts, hcmd, hchat, hres, position,
                 nReload, callback, facade>>
              /\ Did(nReload, "reloading")
              /\ UNCHANGED <<started, resetSince>>
              /\ UNCHANGED calls
              /\ UNCHANGED <<hfn, open_orders, table>>

\* lines 107-109: json.load(open(sys.argv[3])) returns or raises
L108 ==
    /\ hpc = "l108"
    /\ \E ok \in BOOLEAN : hpc' = IF ok THEN "l114" ELSE "l110"
    /\ UNCHANGED <<now, config_reload_ts, hcmd, hchat, hres, msgs, position,
                   nReload, callback, facade>>
    /\ UNCHANGED history
    /\ UNCHANGED calls
    /\ UNCHANGED <<hfn, open_orders, table>>
    /\ NotSending

L110 ==
    /\ hpc = "l110"
    /\ \E o \in SendOutcomes :
         /\ Sending(o)
         /\ IF Propagates(o) THEN HandlerRaised ELSE
              /\ msgs' = send_msg(msgs, MsgFailedLoad)
              /\ hpc' = "l111"
              /\ UNCHANGED <<now, config_reload_ts, hcmd, hchat, hres, position,
                 nReload, callback, facade>>
              /\ Did(nReload, "failed")
              /\ UNCHANGED <<started, resetSince>>
              /\ UNCHANGED calls
              /\ UNCHANGED <<hfn, open_orders, table>>

\* mutant of L111: the failure branch returns without clearing the
\* timestamp
L111NoReset ==
    /\ hpc = "l111"
    /\ hpc' = "idle"
    /\ hres' = "returned"
    /\ UNCHANGED <<now, config_reload_ts, hcmd, hchat, msgs, position,
                   nReload, callback, facade, history>>
    /\ UNCHANGED calls
    /\ UNCHANGED <<hfn, open_orders, table>>
    /\ NotSending

\* lines 111-112
L111 ==
    /\ hpc = "l111"
    /\ config_reload_ts' = 0
    /\ hpc' = "idle"
    /\ hres' = "returned"
    /\ UNCHANGED <<now, hcmd, hchat, msgs, position, nReload, callback,
                   facade>>
    /\ Did(nReload, "ts_reset")
    /\ resetSince' = TRUE
    /\ UNCHANGED started
    /\ UNCHANGED calls
    /\ UNCHANGED <<hfn, open_orders, table>>
    /\ NotSending

L114 ==
    /\ hpc = "l114"
    /\ paused' = TRUE
    /\ hpc' = "l115"
    /\ UNCHANGED <<now, config_reload_ts, hcmd, hchat, hres, msgs, position,
                   nReload, callback, config, tasks>>
    /\ Did(nReload, "pause")
    /\ UNCHANGED <<started, resetSince>>
    /\ calls' = Append(calls, "pause()")
    /\ UNCHANGED <<hfn, open_orders, table>>
    /\ NotSending

L115 ==
    /\ hpc = "l115"
    /\ config' = LoadedConfig(nReload)
    /\ hpc' = "l122"
    /\ UNCHANGED <<now, config_reload_ts, hcmd, hchat, hres, msgs, position,
                   nReload, callback, paused, tasks>>
    /\ Did(nReload, "set_config")
    /\ UNCHANGED <<started, resetSince>>
    /\ calls' = Append(calls, "set_config(config)")
    /\ UNCHANGED <<hfn, open_orders, table>>
    /\ NotSending

\* lines 122-123: the init_indicators task is created on the event loop
L122 ==
    /\ hpc = "l122"
    /\ tasks' = tasks \cup {nReload}
    /\ hpc' = "idle"
    /\ hres' = "returned"
    /\ UNCHANGED <<now, config_reload_ts, hcmd, hchat, msgs, position,
                   nReload, callback, paused, config>>
    /\ Did(nReload, "init_indicators")
    /\ UNCHANGED <<started, resetSince>>
    /\ calls' = Append(calls, "init_indicators()")
    /\ UNCHANGED <<hfn, open_orders, table>>
    /\ NotSending

\* -------------------------------------------------------- init_finished
\* a task is done when it returned, raised or was cancelled; asyncio calls
\* the done-callback of line 123 in each case
TaskOutcomes == {"result", "exception", "cancelled"}
\* mutant of Resumes: init_finished that resumes only after a task that
\* returned
ResumesOnSuccess(o) == o = "result"
\* lines 117-118: init_finished never looks at its task argument, resume()
\* is its first statement
Resumes(o) == TRUE

\* The init_indicators task of attempt n is done; the event loop calls
\* init_finished, which executes line 118.
L118(n) ==
    /\ cpc = "idle"
    /\ n \in tasks
    /\ tasks' = tasks \ {n}
    /\ ctask' = n
    /\ cbmsgs' = <<>>
    /\ cpc' = "l119"
    /\ UNCHANGED <<now, config_reload_ts, handler, config>>
    /\ \E o \in TaskOutcomes :
         /\ outcome' = o
         /\ paused' = IF Resumes(o) THEN FALSE ELSE paused
         /\ IF Resumes(o) THEN Did(n, "resume") ELSE UNCHANGED ev
    /\ UNCHANGED <<started, resetSince>>
    /\ dropped' = FALSE
    /\ UNCHANGED exitlog

\* line 119: log_start, lines 138-140, sends the banner, then show_config
L119 ==
    /\ cpc = "l119"
    /\ \E o1, o2 \in SendOutcomes :
         /\ dropped' = (o1 = "failed" \/ o2 = "failed")
         /\ outcome' = "none"
         /\ UNCHANGED exitlog
         /\ IF Propagates(o1) \/ Propagates(o2) THEN CallbackRaised ELSE
              /\ cbmsgs' = send_msg(send_msg(cbmsgs, MsgStarted), MsgConfig)
              /\ cpc' = "l120"
              /\ UNCHANGED <<now, config_reload_ts, handler, ctask, facade>>
              /\ Did(ctask, "log_start")
              /\ UNCHANGED <<started, resetSince>>

\* mutant of L120: init_finished ends without clearing the timestamp
L120NoReset ==
    /\ cpc = "l120"
    /\ cpc' = "idle"
    /\ Did(ctask, "ts_reset")
    /\ UNCHANGED <<now, config_reload_ts, handler, ctask, cbmsgs, facade,
                   started, resetSince>>
    /\ NotSending

\* line 120
L120 ==
    /\ cpc = "l120"
    /\ config_reload_ts' = 0
    /\ cpc' = "idle"
    /\ UNCHANGED <<now, handler, ctask, cbmsgs, facade>>
    /\ Did(ctask, "ts_reset")
    /\ resetSince' = TRUE
    /\ UNCHANGED started
    /\ NotSending

\* ------------------------------------------------------------------ exit
MsgShutdown == "Succesfully shutdown telegram bot"
MsgShutdownFailed == "Failed to shutdown telegram bot. Please make sure it is correctly terminated"
\* self._updater.stop() returns or raises, line 156
StopOutcomes == {"stopped", "failed"}
\* mutant of ExitLog: exit without its except clause
ExitLogNoExcept(o) ==
    IF o = "stopped" THEN <<MsgShutdown, "KeyboardInterrupt">>
    ELSE <<"teardown error">>
\* lines 155-160: what exit prints, and the exception it ends with
ExitLog(o) ==
    IF o = "stopped" THEN <<MsgShutdown, "KeyboardInterrupt">>
    ELSE <<MsgShutdownFailed, "KeyboardInterrupt">>

\* exit, lines 154-160: the signal handler of the host process, called at
\* any point of a handler or a callback
Exit ==
    /\ exitlog = <<>>
    /\ \E o \in StopOutcomes : exitlog' = ExitLog(o)
    /\ dropped' = FALSE
    /\ outcome' = "none"
    /\ UNCHANGED <<now, config_reload_ts, handler, callback, facade, history>>

Next ==
    \/ Tick
    \/ \E chat \in Chats, cmd \in Inbound : Help(chat, cmd)
    \/ \E chat \in Chats, cmd \in Inbound, pos \in SomeSnapshots :
            Position(chat, cmd, pos)
    \/ \E chat \in Chats, cmd \in Inbound, pos \in SomeSnapshots :
            Balance(chat, cmd, pos)
    \/ \E chat \in Chats, cmd \in Inbound, oo \in SomeOrderLists :
            Orders(chat, cmd, oo)
    \/ \E chat \in Chats, cmd \in Inbound : GracefulStop(chat, cmd)
    \/ \E chat \in Chats, cmd \in Inbound : ShowConfig(chat, cmd)
    \/ \E chat \in Chats, cmd \in Inbound : Ignored(chat, cmd)
    \/ \E chat \in Chats, cmd \in Inbound : ReloadConfig(chat, cmd)
    \/ L101
    \/ L102
    \/ L104
    \/ L105
    \/ L108
    \/ L110
    \/ L111
    \/ L114
    \/ L115
    \/ L122
    \/ \E n \in Attempts : L118(n)
    \/ L119
    \/ L120

Spec == Init /\ [][Next]_vars

\* The relay until the host process is told to shut down: nothing is
\* dispatched once exit has raised.
NextExit ==
    \/ exitlog = <<>> /\ Next
    \/ Exit

SpecExit == Init /\ [][NextExit]_vars

\* The handlers that read the position snapshot, over every snapshot.
NextSnap ==
    \/ \E chat \in Chats, cmd \in Inbound, pos \in Snapshots :
            Position(chat, cmd, pos)
    \/ \E chat \in Chats, cmd \in Inbound, pos \in Snapshots :
            Balance(chat, cmd, pos)

SpecSnap == Init /\ [][NextSnap]_vars

\* The /orders handler, over every order list.
NextOrders == \E chat \in Chats, cmd \in Inbound, oo \in OrderLists :
                  Orders(chat, cmd, oo)

SpecOrders == Init /\ [][NextOrders]_vars

\* ================================================================ claims
\* steps of the guard of _reload_config, lines 100-103
Accepts == hpc # "l104" /\ hpc' = "l104"
Leaves(l) == hpc = l /\ hpc' # l
InProgressReply == <<[to |-> chat_id, text |-> MsgInProgress]>>
\* the attempts line 104 has run for
Accepted == {n \in Attempts : started[n] > 0}

\* C1, as stated: of the /reload_config invocations that fall within one
\* 5-minute window only the first is accepted, whether or not that reload
\* has completed or failed inside the window: no attempt is accepted less
\* than 5 minutes after an earlier one was.
C1_OnlyFirstInWindow ==
    [][Accepts => \A n \in Accepted : now - started[n] >= ReloadWindow]_vars

\* C1, amended: within 5 minutes of an accepted attempt a later
\* /reload_config is accepted only if config_reload_ts has been reset to
\* zero since (the reload completed or its config failed to load);
\* otherwise it gets the 'in progress' reply, and a rejected attempt does
\* nothing but send that reply.
C1_OnlyFirstUntilReset ==
    [][/\ Accepts =>
            \A n \in Accepted : now - started[n] < ReloadWindow => resetSince
       /\ \A n \in Attempts :
            /\ ev'[n] # <<>> => ev'[n][1] \in {"ts_set", "in_progress"}
            /\ (ev'[n] # <<>> /\ ev'[n][1] = "in_progress") =>
                    /\ Len(ev'[n]) = 1
                    /\ (n = nReload' /\ hcmd' = "reload_config") =>
                            msgs' = InProgressReply
      ]_vars

\* a second /reload_config was rejected while the first reload, accepted
\* less than 5 minutes before, was waiting for init_indicators
C1_Witness ==
    /\ ev[1] = <<"ts_set", "reloading", "pause", "set_config",
                 "init_indicators">>
    /\ ev[2] = <<"in_progress">>
    /\ now - started[1] < ReloadWindow
    /\ ~resetSince

\* C3: when init_finished has run, config_reload_ts is zero, and a
\* /reload_config dispatched while it is zero passes the guard.
C3_ZeroAfterCallback ==
    [][/\ (cpc = "l120" /\ cpc' # "l120") =>
            config_reload_ts' = 0 /\ cpc' = "idle"
       /\ (hpc = "idle" /\ hpc' # "idle" /\ cpc = "idle" /\ ctask # 0
             /\ config_reload_ts = 0) => hpc' = "l104"
      ]_vars

\* attempt 1 completed and, with no time passed, attempt 2 was accepted
C3_Witness ==
    /\ ev[1] = <<"ts_set", "reloading", "pause", "set_config",
                 "init_indicators", "resume", "log_start", "ts_reset">>
    /\ ev[2] = <<"ts_set">>
    /\ started[2] = started[1]

\* the running or last handler is a _reload_config that failed to load
LoadFailed == hcmd = "reload_config" /\ nReload \in Attempts
              /\ "failed" \in {ev[nReload][i] : i \in DOMAIN ev[nReload]}
FailedReplies == <<[to |-> chat_id, text |-> MsgReloading],
                   [to |-> chat_id, text |-> MsgFailedLoad]>>

\* C4: an accepted /reload_config whose config fails to load replies
\* 'Failed to load config file', returns with config_reload_ts zero, calls
\* none of pause, set_config, init_indicators, and the next /reload_config
\* passes the guard.
C4_FailedLoad ==
    [][/\ Leaves("l110") => hpc' = "l111" /\ msgs' = FailedReplies
       /\ Leaves("l111") =>
            /\ hpc' = "idle" /\ hres' = "returned"
            /\ config_reload_ts' = 0
       /\ LoadFailed' =>
            /\ ev'[nReload'] \in {<<"ts_set", "reloading", "failed">>,
                    <<"ts_set", "reloading", "failed", "ts_reset">>}
            /\ config'.version # nReload' /\ nReload' \notin tasks'
       /\ (LoadFailed /\ hpc = "idle" /\ hpc' # "idle") => hpc' = "l104"
      ]_vars

\* attempt 1 failed to load and, with no time passed, attempt 2 was accepted
C4_Witness ==
    /\ ev[1] = <<"ts_set", "reloading", "failed", "ts_reset">>
    /\ ev[2] = <<"ts_set">>
    /\ started[2] = started[1]
    /\ ~paused /\ config = StartConfig

\* C5: a /reload_config whose guard finds config_reload_ts set and less
\* than 5 minutes old goes to the 'in progress' reply and returns; it
\* writes neither config_reload_ts nor the Bot Facade, and sends nothing
\* else.
C5_RejectChangesNothing ==
    [][/\ (hpc = "idle" /\ hpc' # "idle" /\ GuardSet(config_reload_ts)) =>
            hpc' = "l101" /\ UNCHANGED <<config_reload_ts, facade, ev>>
       /\ (Leaves("l101") /\ GuardSet(config_reload_ts)
             /\ GuardFresh(now, config_reload_ts)) =>
            hpc' = "l102" /\ UNCHANGED <<config_reload_ts, facade, msgs, ev>>
       /\ Leaves("l102") =>
            /\ hpc' = "idle" /\ hres' = "returned"
            /\ msgs' = InProgressReply
            /\ ev'[nReload] = <<"in_progress">>
            /\ UNCHANGED <<config_reload_ts, facade>>
      ]_vars

\* a /reload_config was rejected 200 s after the reload in flight began,
\* and the timestamp is still that reload's
C5_Witness ==
    /\ hpc = "idle" /\ hcmd = "reload_config" /\ msgs = InProgressReply
    /\ tasks = {1}
    /\ config_reload_ts = started[1]
    /\ now > started[1]
Events(n) == {ev[n][i] : i \in DOMAIN ev[n]}
\* the attempts that called pause() and whose resume() is still to come
InFlight == {n \in Attempts : "pause" \in Events(n) /\ "resume" \notin Events(n)}

\* C2, as stated: at most one init_indicators task started by
\* _reload_config is pending, and at most one reload is between its pause()
\* and its resume().
C2_OneInFlight == Cardinality(tasks) <= 1 /\ Cardinality(InFlight) <= 1

Stuck(n) ==
    /\ n \in tasks
    /\ \A m \in Accepted : m <= n
    /\ ~resetSince

IsPrefix(s, t) == Len(s) <= Len(t) /\ \A i \in DOMAIN s : s[i] = t[i]
ReloadOrder == <<"ts_set", "reloading", "pause", "set_config",
                 "init_indicators", "resume", "log_start", "ts_reset">>

\* C7, as stated: an accepted reload whose config parses does, in this
\* order, timestamp set, 'Reloading config...', pause(), set_config(),
\* init_indicators(), and after its completion resume(), the banner and
\* config display, the timestamp reset; and the timestamp is non-zero from
\* its acceptance until its completion callback resets it.
C7_ReloadOrder ==
    \A n \in Attempts : "pause" \in Events(n) =>
        /\ IsPrefix(ev[n], ReloadOrder)
        /\ "ts_reset" \notin Events(n) => config_reload_ts > 0

\* C8, as stated: between the guard's read of config_reload_ts (line 100)
\* and the write of line 104 nothing but the handler writes
\* config_reload_ts: the completion callback does not run in between.
C8_GuardAtomic ==
    [][(hpc \in {"l101", "l104"} /\ hpc' = hpc) =>
            config_reload_ts' = config_reload_ts]_vars

SentTo(log) == {log[i].to : i \in DOMAIN log}

\* C9, as stated: no handler runs for a command from a chat other than the
\* configured one, and every message goes to the configured chat.
C9_OnlyConfiguredChat ==
    /\ hres \notin {"none", "ignored"} => hchat = chat_id
    /\ SentTo(msgs) \cup SentTo(cbmsgs) \subseteq {chat_id}

\* C10, as stated: /balance returns normally for every position snapshot,
\* and replies 'Balance not retrieved yet' for the empty one.
C10_BalanceNeverRaises ==
    hcmd = "balance" =>
        /\ hres = "returned"
        /\ position = {} =>
             msgs = <<[to |-> chat_id, text |-> MsgBalNotRetrieved]>>
\* a step in which the dispatcher ran the handler of cmd
Ran(cmd) == hcmd' = cmd /\ <<hcmd, hchat>> # <<hcmd', hchat'>>

\* C12: /graceful_stop calls set_config_value('do_long', False) and
\* set_config_value('do_shrt', False) and no other Bot Facade mutator,
\* leaves config_reload_ts as it is and sends one confirmation.
C12_GracefulStop ==
    [][Ran("graceful_stop") =>
         /\ calls' = <<"set_config_value(do_long, False)",
                       "set_config_value(do_shrt, False)">>
         /\ config' = [config EXCEPT !.do_long = FALSE, !.do_shrt = FALSE]
         /\ UNCHANGED <<paused, tasks, config_reload_ts>>
         /\ msgs' = <<[to |-> chat_id, text |-> MsgGraceful]>>
         /\ hres' = "returned"
      ]_vars

\* /graceful_stop ran while reload 1 was waiting for init_indicators: both
\* flags are off in the reloaded config and the timestamp is still set
C12_Witness ==
    /\ hcmd = "graceful_stop" /\ hres = "returned"
    /\ config = [version |-> 1, do_long |-> FALSE, do_shrt |-> FALSE]
    /\ tasks = {1} /\ paused
    /\ config_reload_ts = started[1]
\* the callback registered for each command, lines 27-33
Callback(cmd) ==
    CASE cmd = "balance" -> "_balance"
      [] cmd = "orders" -> "_orders"
      [] cmd = "position" -> "_position"
      [] cmd = "graceful_stop" -> "_graceful_stop"
      [] cmd = "show_config" -> "show_config"
      [] cmd = "reload_config" -> "_reload_config"
      [] cmd = "help" -> "_help"
      [] OTHER -> "none"

\* C15: the dispatcher calls, for a registered command, the one handler
\* registered for it, and for any other command no handler: no reply, no
\* Bot Facade call, no change of config_reload_ts.
C15_Routing ==
    [][\A cmd \in Inbound : Ran(cmd) =>
         /\ hfn' = Callback(cmd)
         /\ hfn' # "none" => hres' \in {"running", "returned", "raised"}
         /\ hfn' = "none" =>
              /\ hres' = "ignored"
              /\ msgs' = <<>> /\ calls' = <<>>
              /\ UNCHANGED <<facade, config_reload_ts, hpc, callback>>
      ]_vars

\* /start arrived while reload 1 was waiting for init_indicators, and
\* nothing ran
C15_Witness ==
    /\ hcmd = "start" /\ hres = "ignored" /\ hfn = "none"
    /\ msgs = <<>>
    /\ tasks = {1} /\ config_reload_ts = started[1]

Prices(rows) == [i \in DOMAIN rows |-> rows[i].price]
RowCount(rows, r) == Cardinality({i \in DOMAIN rows : rows[i] = r})

\* C16: /orders renders one row per open order, and the rows are in
\* ascending order of price whatever the order of the list.
C16_OrdersSorted ==
    hfn = "_orders" =>
        /\ hres = "returned"
        /\ Len(table) = Len(open_orders)
        /\ \A i \in DOMAIN open_orders :
             RowCount(table, TableRow(open_orders[i])) =
             Cardinality({j \in DOMAIN open_orders :
                             open_orders[j] = open_orders[i]})
        /\ \A i, j \in DOMAIN table :
             i < j => table[i].price <= table[j].price

\* the order at price 100 came first in the list and is the second row
C16_Witness ==
    /\ hfn = "_orders"
    /\ Prices(open_orders) = <<100, 90>>
    /\ Prices(table) = <<90, 100>>

\* C13: a send that the transport fails never raises into its caller. The
\* step that sent goes on to the statement that follows the send (a handler
\* does not end with an exception, init_finished does not stop before line
\* 120), and the state change that follows the send still happens.
C13_SendNeverRaises ==
    [][/\ dropped' =>
            IF cpc = "l119" /\ cpc' # "l119"
            THEN cpc' = "l120"
            ELSE /\ hres' \in {"running", "returned"}
                 /\ hpc = "l105" => hpc' = "l108"
                 /\ hpc = "l110" => hpc' = "l111"
       /\ dropped /\ Leaves("l111") => config_reload_ts' = 0
       /\ dropped /\ cpc = "l120" /\ cpc' # "l120" => config_reload_ts' = 0
      ]_vars

\* the "Failed to load config file" reply of reload 1 was lost in the
\* transport and the handler is about to reset the timestamp
C13_Witness ==
    /\ dropped
    /\ hpc = "l111" /\ nReload = 1
    /\ config_reload_ts = started[1]

Count(seq, e) == Cardinality({i \in DOMAIN seq : seq[i] = e})
\* no handler is running, no init_indicators task is pending and no
\* completion callback is running
Quiescent == hpc = "idle" /\ tasks = {} /\ cpc = "idle"

\* C17: when the init_indicators task of a reload finishes, however it
\* ended, the completion callback calls resume() once, and its last
\* statement resets the timestamp; once every task has finished and every
\* callback has returned, each reload that called pause() has called
\* resume() exactly once, the bot is not paused and the timestamp is zero.
C17_PauseResumeMatched ==
    /\ [](Quiescent =>
            /\ ~paused
            /\ config_reload_ts = 0
            /\ \A n \in Attempts :
                 /\ Count(ev[n], "pause") <= 1
                 /\ Count(ev[n], "resume") = Count(ev[n], "pause"))
    /\ [][/\ outcome' # "none" =>
               /\ ~paused'
               /\ ev' = [ev EXCEPT ![ctask'] = Append(@, "resume")]
               /\ Count(ev'[ctask'], "resume") = 1
          /\ (cpc # "idle" /\ cpc' = "idle") => config_reload_ts' = 0
         ]_vars

\* the init_indicators task of reload 1 was cancelled, and the callback has
\* just resumed the bot that reload 1 paused
C17_Witness ==
    /\ outcome = "cancelled"
    /\ ctask = 1 /\ cpc = "l119"
    /\ ~paused
    /\ Count(ev[1], "pause") = 1 /\ Count(ev[1], "resume") = 1

\* C14: exit ends by raising KeyboardInterrupt whether stopping the
\* listening loop succeeded or raised; the teardown failure is printed and
\* is not what exit raises.
C14_ExitRaisesInterrupt ==
    exitlog # <<>> =>
        /\ Len(exitlog) = 2
        /\ exitlog[1] \in {MsgShutdown, MsgShutdownFailed}
        /\ exitlog[2] = "KeyboardInterrupt"

\* the host was told to shut down while reload 1 waited for
\* init_indicators, and stopping the listening loop raised
C14_Witness ==
    /\ exitlog = <<MsgShutdownFailed, "KeyboardInterrupt">>
    /\ tasks = {1} /\ paused

\* C11, as stated: whatever the Bot Facade holds, no registered command's
\* handler ends with an exception: it returns, or it is _reload_config
\* still at work.
C11_NoHandlerEscapes ==
    hfn # "none" => hres \in {"running", "returned"}

Queries == {"balance", "orders", "position", "show_config", "help"}

\* C18, as stated: each of /balance, /orders, /position, /show_config and
\* /help calls no Bot Facade mutator, leaves the Bot Facade and
\* config_reload_ts as they are, and sends exactly one reply.
C18_QueriesReadOnly ==
    [][\A cmd \in Queries : Ran(cmd) =>
         /\ calls' = <<>>
         /\ UNCHANGED <<facade, config_reload_ts>>
         /\ Len(msgs') = 1
      ]_vars

\* C19, as stated: for every snapshot /position replies 'Position not
\* initialized yet' exactly when /balance replies 'Balance not retrieved
\* yet' for it, and otherwise /position replies with the table.
C19_SameInitialised ==
    hfn = "_position" =>
        /\ msgs = <<[to |-> chat_id, text |-> MsgPosNotInit]>>
             <=> /\ ~BalanceRaises(position)
                 /\ BalanceReply(position) = MsgBalNotRetrieved
        /\ msgs # <<[to |-> chat_id, text |-> MsgPosNotInit]>>
             => msgs = <<[to |-> chat_id, text |-> MsgPosition]>>
====
